---- MODULE Spec2Model ----
(***************************************************************************)
(* Parcel tracker (my-app/src/App.jsx): the App component's state, its     *)
(* event handlers, the simulated lookup and the two effects that draw the  *)
(* route and run the 15 s interval.                                        *)
(*                                                                         *)
(* One action is one task of the browser's event loop: the handler (or the *)
(* timer callback, or the settling of the lookup promise), the render that *)
(* React performs for the state it set, and the effects of that render     *)
(* (React runs the effects of a render before the next render and before   *)
(* any later task can observe the state, so no callback falls in between). *)
(* Strings the code inspects (the tracking id) are sequences of one-letter *)
(* strings; distances are whole millimetres.                               *)
(***************************************************************************)
EXTENDS Integers, Sequences, FiniteSets, TLC

VARIABLES
  trackingId,    \* useState(""): the id input's text
  loading,       \* useState(false)
  error,         \* useState("")
  info,          \* useState(null): the fetched route, or NULL
  idx,           \* useState(0): current index along info.path
  follow,        \* useState(true)
  mapRef,        \* useRef: TRUE when the Leaflet map was created
  markerRef,     \* useRef: the coordinate the marker layer shows, or NULL
  fullLineRef,   \* useRef: the path the full polyline shows, or NULL
  travelledRef,  \* useRef: the path prefix the travelled polyline shows, or NULL
  timerRef,      \* useRef: the handle setInterval last returned; 0 is null
  timers,        \* the browser's live intervals: [id, info] (info is the callback's closure)
  cleanupArmed,  \* whether the interval effect's last run returned its cleanup
  fetches,       \* fetchTracking calls whose 500 ms timeout has not fired yet, oldest first
  now,           \* the clock new Date() reads
  lastEvent,     \* history: the operation that produced this state
  ticks,         \* history: interval callbacks run since info was last set
  prevIdx,       \* history: idx at the moment of the last submit or Clear
  formatArg,     \* a call of formatETA on its own: the argument
  formatted,     \* a call of formatETA on its own: the result, NULL before the call
  submitted,     \* history: the input's text at the last submit
  clearPressed,  \* history: Clear was pressed since the last submit
  prevError      \* history: error at the moment of the last submit or Clear

vars == << trackingId, loading, error, info, idx, follow, mapRef, markerRef,
           fullLineRef, travelledRef, timerRef, timers, cleanupArmed, fetches,
           now, lastEvent, ticks, prevIdx, formatArg, formatted, submitted,
           clearPressed, prevError >>

\* A nullable value is the empty sequence (null) or the one-element sequence
\* holding the value.
NULL == << >>
Some(x) == << x >>
Val(o) == o[1]

\* ------------------------------------------------------------------ bounds

\* The clock stops advancing here (timestamps may then repeat).
MaxNow == 2
\* The tick counter stops counting here; above the longest path's length.
MaxTicks == 8

Min(a, b) == IF a < b THEN a ELSE b
Max(a, b) == IF a > b THEN a ELSE b

\* ------------------------------------------------------------------ strings

LowerCase == << "a", "b", "c", "d", "e", "f", "g", "h", "i", "j", "k", "l", "m",
                "n", "o", "p", "q", "r", "s", "t", "u", "v", "w", "x", "y", "z" >>
UpperCase == << "A", "B", "C", "D", "E", "F", "G", "H", "I", "J", "K", "L", "M",
                "N", "O", "P", "Q", "R", "S", "T", "U", "V", "W", "X", "Y", "Z" >>
WhiteSpace == { " ", "\t", "\n", "\r", "\f" }

\* Mutant of toUpperCase: the string is returned as it is.
toUpperCaseNothing(s) == s

\* String.prototype.toUpperCase, letter by letter: a lower-case letter maps
\* to the upper-case letter at the same place of the alphabet, any other
\* character to itself.
LowerLetters == { LowerCase[i] : i \in 1..26 }
UpperOf ==
  [ c \in LowerLetters |-> UpperCase[CHOOSE i \in 1..26 : LowerCase[i] = c] ]
UpperChar(c) == IF c \in LowerLetters THEN UpperOf[c] ELSE c
toUpperCase(s) == [i \in 1..Len(s) |-> UpperChar(s[i])]

\* String.prototype.trim: drops the white space at both ends.
RECURSIVE trimStart(_)
trimStart(s) ==
  IF s # << >> /\ Head(s) \in WhiteSpace THEN trimStart(Tail(s)) ELSE s
RECURSIVE trimEnd(_)
trimEnd(s) ==
  IF s # << >> /\ s[Len(s)] \in WhiteSpace
    THEN trimEnd(SubSeq(s, 1, Len(s) - 1))
    ELSE s
trim(s) == trimEnd(trimStart(s))

\* What the user may type into the id input.
Inputs ==
  { << >>,
    << " " >>,
    << "c", "h", "n", "1", "2", "3" >>,
    << " ", "c", "h", "n", "1", "2", "3", " " >>,
    << "C", "H", "N", "1", "2", "3" >>,
    << "B", "L", "R", "5", "5", "5" >>,
    << "m", "u", "m", "7", "7", "7" >>,
    << "Z", "Z", "Z", "0", "0", "0" >> }

\* ------------------------------------------------------------------ registry

\* Coordinates are [lat, lon] in units of 1e-4 degree.
CHN123 == << "C", "H", "N", "1", "2", "3" >>
BLR555 == << "B", "L", "R", "5", "5", "5" >>
MUM777 == << "M", "U", "M", "7", "7", "7" >>

ROUTES ==
  ( CHN123 :>
      [ trackingId |-> CHN123,
        status |-> "In Transit",
        carrier |-> "Phoenix Express",
        origin |-> "Chennai Central",
        destination |-> "Adyar, Chennai",
        path |-> << <<130827, 802707>>, <<130604, 802496>>, <<130431, 802460>>,
                    <<130287, 802478>>, <<130214, 802526>>, <<130067, 802570>>,
                    <<130012, 802551>> >> ] )
  @@
  ( BLR555 :>
      [ trackingId |-> BLR555,
        status |-> "Out for Delivery",
        carrier |-> "SouthLine Logistics",
        origin |-> "Bengaluru",
        destination |-> "Mysuru",
        path |-> << <<129716, 775946>>, <<128000, 774000>>, <<126000, 769000>>,
                    <<124500, 766500>>, <<122958, 766394>> >> ] )
  @@
  ( MUM777 :>
      [ trackingId |-> MUM777,
        status |-> "In Transit",
        carrier |-> "Western Courier",
        origin |-> "Mumbai",
        destination |-> "Pune",
        path |-> << <<190760, 728777>>, <<189500, 731500>>, <<188000, 733000>>,
                    <<186500, 735000>>, <<185204, 738567>> >> ] )

NotFoundMessage == "Tracking ID not found"

\* The object fetchTracking resolves with: {...data, lastUpdated}.
RouteData(key, stamp) ==
  [ trackingId |-> ROUTES[key].trackingId,
    status |-> ROUTES[key].status,
    carrier |-> ROUTES[key].carrier,
    origin |-> ROUTES[key].origin,
    destination |-> ROUTES[key].destination,
    path |-> ROUTES[key].path,
    lastUpdated |-> stamp ]

\* Mutant of fetchTracking: the rejection carries another message.
fetchTrackingOtherMessage(id, stamp) ==
  LET key == toUpperCase(id) IN
  IF key \in DOMAIN ROUTES
    THEN [ ok |-> TRUE, data |-> Some(RouteData(key, stamp)) ]
    ELSE [ ok |-> FALSE, message |-> "Failed to fetch" ]

\* fetchTracking's timeout callback: the registry entry under the upper-cased
\* id, or the rejection.
fetchTracking(id, stamp) ==
  LET key == toUpperCase(id) IN
  IF key \in DOMAIN ROUTES
    THEN [ ok |-> TRUE, data |-> Some(RouteData(key, stamp)) ]
    ELSE [ ok |-> FALSE, message |-> NotFoundMessage ]

\* ------------------------------------------------------------------ geo

\* haversineMeters on the consecutive waypoints of the registry's paths: the
\* formula's value (Earth radius 6371000 m) rounded to the millimetre.
HaversineTable ==
  ( << <<130827, 802707>>, <<130604, 802496>> >> :> 3372208 ) @@
  ( << <<130604, 802496>>, <<130431, 802460>> >> :> 1962800 ) @@
  ( << <<130431, 802460>>, <<130287, 802478>> >> :> 1613036 ) @@
  ( << <<130287, 802478>>, <<130214, 802526>> >> :> 964001 ) @@
  ( << <<130214, 802526>>, <<130067, 802570>> >> :> 1702656 ) @@
  ( << <<130067, 802570>>, <<130012, 802551>> >> :> 645287 ) @@
  ( << <<129716, 775946>>, <<128000, 774000>> >> :> 28443381 ) @@
  ( << <<128000, 774000>>, <<126000, 769000>> >> :> 58619510 ) @@
  ( << <<126000, 769000>>, <<124500, 766500>> >> :> 31853133 ) @@
  ( << <<124500, 766500>>, <<122958, 766394>> >> :> 17184866 ) @@
  ( << <<190760, 728777>>, <<189500, 731500>> >> :> 31871202 ) @@
  ( << <<189500, 731500>>, <<188000, 733000>> >> :> 22962558 ) @@
  ( << <<188000, 733000>>, <<186500, 735000>> >> :> 26866327 ) @@
  ( << <<186500, 735000>>, <<185204, 738567>> >> :> 40262171 )

haversineMeters(a, b) == IF a = b THEN 0 ELSE HaversineTable[<< a, b >>]

\* for (i = 1; i < path.length; i++) d += haversineMeters(path[i-1], path[i])
\* (path[i-1], path[i] of the code are path[i], path[i+1] here: sequences
\* start at 1).
RECURSIVE pathDistanceFrom(_, _, _)
pathDistanceFrom(path, i, d) ==
  IF i < Len(path)
    THEN pathDistanceFrom(path, i + 1, d + haversineMeters(path[i], path[i + 1]))
    ELSE d
\* Mutant of pathDistanceMeters: the loop starts one pair late.
pathDistanceMetersLate(path) == pathDistanceFrom(path, 2, 0)

pathDistanceMeters(path) == pathDistanceFrom(path, 1, 0)

\* Array.prototype.slice(0, end) for 0 <= end.
slice0(path, end) == SubSeq(path, 1, Min(end, Len(path)))

\* Mutant of distances: covered is taken over slice(0, idx).
distancesShortPrefix(inf, i) ==
  IF inf = NULL THEN NULL
  ELSE
    LET total == pathDistanceMeters(Val(inf).path)
        covered == pathDistanceMeters(slice0(Val(inf).path, i))
        remaining == Max(0, total - covered)
    IN Some([ total |-> total, covered |-> covered, remaining |-> remaining ])

\* The distances memo: null without a route.
distances(inf, i) ==
  IF inf = NULL THEN NULL
  ELSE
    LET total == pathDistanceMeters(Val(inf).path)
        covered == pathDistanceMeters(slice0(Val(inf).path, i + 1))
        remaining == Max(0, total - covered)
    IN Some([ total |-> total, covered |-> covered, remaining |-> remaining ])

\* ------------------------------------------------------------------ eta

\* A JavaScript number: finite, in thousandths (of a minute), or one of NaN,
\* Infinity, -Infinity.
Finite(milli) == [ kind |-> "finite", milli |-> milli ]
NaN == [ kind |-> "NaN", milli |-> 0 ]
Infinity == [ kind |-> "Infinity", milli |-> 0 ]
NegInfinity == [ kind |-> "-Infinity", milli |-> 0 ]

\* const speedKmh = 35
speedKmh == 35

\* The etaMinutes memo: remaining / ((speedKmh * 1000) / 60), remaining in
\* millimetres, the quotient in thousandths of a minute: remaining * 60 /
\* (speedKmh * 1000), with the fraction reduced by 20 to stay in range.
EtaMinutes(dist) ==
  IF dist = NULL THEN NULL
  ELSE Some(Finite((Val(dist).remaining * 3) \div (speedKmh * 50)))

\* A non-negative integer in a template literal: its decimal digits.
DecimalDigits == << "0", "1", "2", "3", "4", "5", "6", "7", "8", "9" >>
RECURSIVE Digits(_)
Digits(n) ==
  IF n < 10 THEN << DecimalDigits[n + 1] >>
  ELSE Digits(n \div 10) \o << DecimalDigits[(n % 10) + 1] >>

\* Math.round of a non-negative number of thousandths: halves go up.
MathRound(milli) == (milli + 500) \div 1000
\* Math.floor of a non-negative number of thousandths.
MathFloor(milli) == milli \div 1000

\* The dash formatETA returns for an unusable argument.
Placeholder == << "--" >>

\* The number an argument of formatETA is read as: null counts as 0.
ToNumber(arg) == IF arg = NULL THEN Finite(0) ELSE Val(arg)

\* Mutant of formatETA: the minutes are floored instead of rounded.
formatETAFloor(minutes) ==
  LET x == ToNumber(minutes) IN
  IF x.kind # "finite" \/ x.milli < 0 THEN Placeholder
  ELSE IF x.milli < 60000
    THEN Digits(MathFloor(x.milli)) \o << " ", "m", "i", "n" >>
  ELSE
    LET h == MathFloor(x.milli \div 60)
        m == MathFloor(x.milli % 60000)
    IN Digits(h) \o << "h", " " >> \o Digits(m) \o << "m" >>

\* formatETA: the dash, "<minutes> min" below an hour, "<h>h <m>m" from an
\* hour on.
formatETA(minutes) ==
  LET x == ToNumber(minutes) IN
  IF x.kind # "finite" \/ x.milli < 0 THEN Placeholder
  ELSE IF x.milli < 60000
    THEN Digits(MathRound(x.milli)) \o << " ", "m", "i", "n" >>
  ELSE
    LET h == MathFloor(x.milli \div 60)
        m == MathRound(x.milli % 60000)
    IN Digits(h) \o << "h", " " >> \o Digits(m) \o << "m" >>

\* ------------------------------------------------------------------ effects

\* Mutant of clearInterval: the handle is ignored and nothing is cleared.
clearIntervalNothing(handle, tmrs) == tmrs

clearInterval(handle, tmrs) == { t \in tmrs : t.id # handle }

\* setInterval's handle: a positive integer no live interval has and the ref
\* does not hold (handles are opaque; the code only passes them back to
\* clearInterval, and clearInterval(null) clears nothing).
FreshHandle(handle, tmrs) ==
  CHOOSE n \in 1..(Cardinality(tmrs) + 2) :
    /\ n # handle
    /\ \A t \in tmrs : t.id # n

\* Mutant of IntervalEffect: the effect returns no cleanup, so a render that
\* sets info to null leaves the interval running.
IntervalEffectNoCleanup(armed, newInfo, handle, tmrs) ==
  IF newInfo = NULL
    THEN [ timers |-> tmrs, timerRef |-> handle, armed |-> FALSE ]
    ELSE
      LET cleared == { t \in tmrs : t.id # handle }
          h == FreshHandle(handle, cleared)
      IN [ timers |-> cleared \cup { [ id |-> h, info |-> newInfo ] },
           timerRef |-> h,
           armed |-> FALSE ]

\* The interval effect, deps [info], after a render in which info changed:
\* the previous run's cleanup (when that run returned one), then the body.
IntervalEffect(armed, newInfo, handle, tmrs) ==
  LET cleaned == IF armed THEN clearInterval(handle, tmrs) ELSE tmrs IN
  IF newInfo = NULL
    THEN [ timers |-> cleaned, timerRef |-> handle, armed |-> FALSE ]
    ELSE
      LET cleared == clearInterval(handle, cleaned)
          h == FreshHandle(handle, cleared)
      IN [ timers |-> cleared \cup { [ id |-> h, info |-> newInfo ] },
           timerRef |-> h,
           armed |-> TRUE ]

\* The draw effect, deps [info, idx, follow]: the three layer refs after it.
DrawEffect(map, newInfo, newIdx, layers) ==
  IF ~map \/ newInfo = NULL
    THEN layers
    ELSE
      LET path == Val(newInfo).path
          upto == Max(1, newIdx + 1)
      IN [ fullLine |-> Some(path),
           travelled |-> Some(slice0(path, upto)),
           marker |-> Some(path[Min(newIdx, Len(path) - 1) + 1]) ]

Layers == [ fullLine |-> fullLineRef, travelled |-> travelledRef, marker |-> markerRef ]
\* Mutant of NoLayers: the marker is not removed.
NoLayersButMarker == [ fullLine |-> NULL, travelled |-> NULL, marker |-> markerRef ]

NoLayers == [ fullLine |-> NULL, travelled |-> NULL, marker |-> NULL ]

SetLayers(l) ==
  /\ fullLineRef' = l.fullLine
  /\ travelledRef' = l.travelled
  /\ markerRef' = l.marker

\* ------------------------------------------------------------------ state machine

\* After the first render: the map effect created the map when window.L is
\* there; neither other effect did anything (info is null).
AppInit ==
  /\ trackingId = << >>
  /\ loading = FALSE
  /\ error = ""
  /\ info = NULL
  /\ idx = 0
  /\ follow = TRUE
  /\ mapRef \in BOOLEAN
  /\ markerRef = NULL
  /\ fullLineRef = NULL
  /\ travelledRef = NULL
  /\ timerRef = 0
  /\ timers = {}
  /\ cleanupArmed = FALSE
  /\ fetches = << >>
  /\ now = 0
  /\ lastEvent = "init"
  /\ ticks = 0
  /\ prevIdx = 0
  /\ submitted = << >>
  /\ clearPressed = FALSE
  /\ prevError = ""

Init ==
  /\ AppInit
  /\ formatArg = NULL
  /\ formatted = NULL

\* The etaMinutes memo of the current render.
etaMinutes == EtaMinutes(distances(info, idx))

\* What the ETA tile shows: formatETA(etaMinutes) inside the {info && ...}
\* block, nothing without a route.
etaTile == IF info = NULL THEN NULL ELSE Some(formatETA(etaMinutes))

\* The id input's onChange.
SetTrackingId(v) ==
  /\ v # trackingId
  /\ trackingId' = v
  /\ lastEvent' = "input"
  /\ UNCHANGED << loading, error, info, idx, follow, mapRef, markerRef,
                  fullLineRef, travelledRef, timerRef, timers, cleanupArmed,
                  fetches, now, ticks, prevIdx, formatArg, formatted, submitted,
                  clearPressed,
                  prevError >>

\* The render after a handler that called setInfo(newInfo) and left the live
\* intervals tmrs: the interval effect runs when info changed.
AfterInfo(newInfo, tmrs) ==
  IF newInfo # info
    THEN IntervalEffect(cleanupArmed, newInfo, timerRef, tmrs)
    ELSE [ timers |-> tmrs, timerRef |-> timerRef, armed |-> cleanupArmed ]

\* Mutant of CanSubmit: the Track button is not disabled while loading.
CanSubmitWhileLoading == trackingId # << >>

\* The Track button is enabled: disabled={!trackingId || loading}.
CanSubmit == trackingId # << >> /\ ~loading

\* The form's onSubmit with the values it passes to setInfo and setIdx; the
\* Track button is disabled while the input is empty or a lookup is loading.
Submit(newInfo, newIdx) ==
  /\ CanSubmit
  /\ error' = ""
  /\ loading' = TRUE
  /\ info' = newInfo
  /\ idx' = newIdx
  /\ fetches' = Append(fetches, trim(trackingId))
  /\ LET e == AfterInfo(newInfo, timers) IN
       /\ timers' = e.timers
       /\ timerRef' = e.timerRef
       /\ cleanupArmed' = e.armed
  /\ SetLayers(DrawEffect(mapRef, newInfo, newIdx, Layers))
  /\ lastEvent' = "submit"
  /\ prevIdx' = idx
  /\ submitted' = trackingId
  /\ clearPressed' = FALSE
  /\ prevError' = error
  /\ UNCHANGED << trackingId, follow, mapRef, now, ticks, formatArg, formatted >>

\* Mutants of handleSearch: without setInfo(null); without setIdx(0).
handleSearchKeepsRoute == Submit(info, 0)
handleSearchKeepsIdx == Submit(NULL, idx)

\* handleSearch: setInfo(null), setIdx(0).
handleSearch == Submit(NULL, 0)

\* The oldest lookup's timeout fires and finds the id: .then and .finally.
\* The resolved object is a new one, so the render runs the interval effect.
FetchResolve ==
  /\ fetches # << >>
  /\ now' = Min(now + 1, MaxNow)
  /\ LET r == fetchTracking(Head(fetches), now') IN
       /\ r.ok
       /\ info' = r.data
  /\ LET e == IntervalEffect(cleanupArmed, info', timerRef, timers) IN
       /\ timers' = e.timers
       /\ timerRef' = e.timerRef
       /\ cleanupArmed' = e.armed
  /\ SetLayers(DrawEffect(mapRef, info', idx, Layers))
  /\ loading' = FALSE
  /\ fetches' = Tail(fetches)
  /\ lastEvent' = "resolve"
  /\ ticks' = 0
  /\ UNCHANGED << trackingId, error, idx, follow, mapRef, prevIdx, submitted,
                  clearPressed, formatArg, formatted,
                  prevError >>

\* Mutant of FetchReject: without .finally(() => setLoading(false)).
FetchRejectStillLoading ==
  /\ fetches # << >>
  /\ now' = Min(now + 1, MaxNow)
  /\ LET r == fetchTracking(Head(fetches), now') IN
       /\ ~r.ok
       /\ error' = r.message
  /\ fetches' = Tail(fetches)
  /\ lastEvent' = "reject"
  /\ UNCHANGED << trackingId, loading, info, idx, follow, mapRef, markerRef,
                  fullLineRef, travelledRef, timerRef, timers, cleanupArmed,
                  ticks, prevIdx, formatArg, formatted, submitted,
                  clearPressed, prevError >>

\* The oldest lookup's timeout fires and does not find the id: .catch and
\* .finally.
FetchReject ==
  /\ fetches # << >>
  /\ now' = Min(now + 1, MaxNow)
  /\ LET r == fetchTracking(Head(fetches), now') IN
       /\ ~r.ok
       /\ error' = r.message
  /\ loading' = FALSE
  /\ fetches' = Tail(fetches)
  /\ lastEvent' = "reject"
  /\ UNCHANGED << trackingId, info, idx, follow, mapRef, markerRef, fullLineRef,
                  travelledRef, timerRef, timers, cleanupArmed, ticks, prevIdx,
                  formatArg, formatted, submitted, clearPressed,
                  prevError >>

\* Mutants of NextIdx: no clamp at the last waypoint; wrapping to the first;
\* two waypoints a tick; stopping one waypoint short.
NextIdxUnclamped(prev, inf) == prev + 1
NextIdxWrapping(prev, inf) == (prev + 1) % Len(Val(inf).path)
NextIdxSkipping(prev, inf) == Min(prev + 2, Len(Val(inf).path) - 1)
NextIdxShort(prev, inf) == Min(prev + 1, Len(Val(inf).path) - 2)

\* setIdx's updater in the interval callback; info is the callback's closure.
NextIdx(prev, inf) == Min(prev + 1, Len(Val(inf).path) - 1)

\* A live interval fires.
Tick(t) ==
  /\ t \in timers
  /\ idx' = NextIdx(idx, t.info)
  /\ SetLayers(DrawEffect(mapRef, info, idx', Layers))
  /\ lastEvent' = "tick"
  /\ ticks' = Min(ticks + 1, MaxTicks)
  /\ UNCHANGED << trackingId, loading, error, info, follow, mapRef, timerRef,
                  timers, cleanupArmed, fetches, now, prevIdx, submitted,
                  clearPressed, formatArg, formatted,
                  prevError >>

\* The Clear button.
resetAll ==
  /\ trackingId' = << >>
  /\ info' = NULL
  /\ idx' = 0
  /\ error' = ""
  /\ follow' = TRUE
  /\ SetLayers(IF mapRef THEN NoLayers ELSE Layers)
  /\ LET e == AfterInfo(NULL, clearInterval(timerRef, timers)) IN
       /\ timers' = e.timers
       /\ timerRef' = e.timerRef
       /\ cleanupArmed' = e.armed
  /\ lastEvent' = "clear"
  /\ prevIdx' = idx
  /\ clearPressed' = TRUE
  /\ prevError' = error
  /\ UNCHANGED << loading, mapRef, fetches, now, ticks, submitted, formatArg,
                  formatted >>

\* The Follow marker checkbox, rendered only with a route.
SetFollow(b) ==
  /\ info # NULL
  /\ b # follow
  /\ follow' = b
  /\ SetLayers(DrawEffect(mapRef, info, idx, Layers))
  /\ lastEvent' = "follow"
  /\ UNCHANGED << trackingId, loading, error, info, idx, mapRef, timerRef,
                  timers, cleanupArmed, fetches, now, ticks, prevIdx,
                  formatArg, formatted, submitted, clearPressed,
                  prevError >>

Next ==
  \/ \E v \in Inputs : SetTrackingId(v)
  \/ handleSearch
  \/ FetchResolve
  \/ FetchReject
  \/ \E t \in timers : Tick(t)
  \/ resetAll
  \/ \E b \in BOOLEAN : SetFollow(b)

Spec == Init /\ [][Next]_vars

\* formatETA called on its own, once for each argument of a bounded set:
\* every half minute from -MaxHalfMinutes to MaxHalfMinutes half minutes,
\* NaN, the infinities and null.
MaxHalfMinutes == 360

FormatArgs ==
  { Some(Finite(k * 500)) : k \in (0 - MaxHalfMinutes)..MaxHalfMinutes }
    \cup { Some(NaN), Some(Infinity), Some(NegInfinity), NULL }

FormatInit ==
  /\ AppInit
  /\ formatArg \in FormatArgs
  /\ formatted = NULL

FormatCall ==
  /\ formatted = NULL
  /\ formatted' = Some(formatETA(formatArg))
  /\ lastEvent' = "format"
  /\ UNCHANGED << trackingId, loading, error, info, idx, follow, mapRef,
                  markerRef, fullLineRef, travelledRef, timerRef, timers,
                  cleanupArmed, fetches, now, ticks, prevIdx, formatArg,
                  submitted, clearPressed,
                  prevError >>

FormatSpec == FormatInit /\ [][FormatCall]_vars

\* setTimeout fires the lookup's callback 500 ms after the submit.
FetchFairSpec == Spec /\ WF_vars(FetchResolve \/ FetchReject)

\* setInterval fires its callback every 15 s for as long as the interval is
\* live.
TimerFairSpec == Spec /\ WF_vars(\E t \in timers : Tick(t))

\* ------------------------------------------------------------------ claims

LastIndex == Len(Val(info).path) - 1
\* The one interval the interval effect started for the active route.
CurrentTimer == [ id |-> timerRef, info |-> info ]

\* C1: whenever a route is active, 0 <= idx <= length(path) - 1.
C1_IndexInBounds ==
  info # NULL => (0 <= idx /\ idx <= LastIndex)

\* A tick has fired at the last index of the active route.
C1_Witness ==
  /\ info # NULL
  /\ lastEvent = "tick"
  /\ idx = LastIndex
  /\ ticks > Len(Val(info).path)

\* C2: a Clear or a new search leaves no interval running and idx at 0; idx
\* is 0 while no route is active; and idx leaves 0 (or changes at all to a
\* non-zero value) only by a tick of the interval started for the route that
\* is active now, the only interval alive.
C2_NoStaleTick ==
  /\ [](lastEvent \in { "clear", "submit" } => (idx = 0 /\ timers = {}))
  /\ [](info = NULL => idx = 0)
  /\ [][ (idx' # idx /\ idx' # 0) =>
          /\ lastEvent' = "tick"
          /\ info # NULL
          /\ info' = info
          /\ timers = { CurrentTimer } ]_vars

\* A Clear of a route whose interval had advanced the index.
C2_Witness ==
  /\ lastEvent = "clear"
  /\ prevIdx > 0

\* C3: at most one interval is live, only while a route is active, and it is
\* the one started for that route.
C3_OneTimer ==
  /\ Cardinality(timers) <= 1
  /\ timers # {} => (info # NULL /\ timers = { CurrentTimer })

\* A route resolved after an earlier route's interval had advanced the index:
\* the one live interval is the new route's.
C3_Witness ==
  /\ lastEvent = "resolve"
  /\ prevIdx > 0
  /\ timers = { CurrentTimer }
  /\ Val(info).lastUpdated > 1

\* C4: a tick sets idx to min(idx + 1, lastIndex) of the active route; at
\* the last index it changes neither idx nor the route, and the route stays
\* active with its interval.
C4_TickClamps ==
  [][ lastEvent' = "tick" =>
        /\ info # NULL
        /\ info' = info
        /\ timers' = timers
        /\ idx' = (IF idx + 1 < LastIndex THEN idx + 1 ELSE LastIndex)
        /\ (idx = LastIndex => idx' = idx) ]_vars

\* A tick fired when the index was already the last one.
C4_Witness ==
  /\ lastEvent = "tick"
  /\ info # NULL
  /\ idx = LastIndex
  /\ ticks = Len(Val(info).path) + 1


\* C5: when the lookup that settles is for an id absent from the registry, it
\* settles with the not-found error, and in that state no route is active and
\* no interval is live.
C5_NotFoundIdle ==
  [][ ( /\ fetches # << >>
        /\ fetches' = Tail(fetches)
        /\ toUpperCase(Head(fetches)) \notin DOMAIN ROUTES ) =>
        /\ lastEvent' = "reject"
        /\ error' = "Tracking ID not found"
        /\ info' = NULL
        /\ timers' = {} ]_vars

\* A search failed while the layers of a previously tracked route, which had
\* advanced before that search was submitted, are still on the map.
C5_Witness ==
  /\ lastEvent = "reject"
  /\ error = "Tracking ID not found"
  /\ prevIdx > 0
  /\ fullLineRef # NULL

\* C6: in the step in which a route becomes active, and in the state right
\* after a lookup resolved, idx is 0.
C6_ActiveStartsAtZero ==
  /\ [](lastEvent = "resolve" => (info # NULL /\ idx = 0))
  /\ [][ (info = NULL /\ info' # NULL) => idx' = 0 ]_vars

\* A route became active after an earlier route had advanced.
C6_Witness ==
  /\ lastEvent = "resolve"
  /\ info # NULL
  /\ prevIdx > 1

\* C7: in a step that keeps the same route active, idx stays or grows by
\* exactly 1; it grows only by a tick below the last index; a tick at the
\* last index, a follow toggle and an edit of the id input leave it alone.
C7_OnlyTickAdvances ==
  [][ (info # NULL /\ info' = info) =>
        /\ idx' = idx \/ idx' = idx + 1
        /\ idx' # idx => (lastEvent' = "tick" /\ idx < LastIndex)
        /\ (lastEvent' = "tick" /\ idx < LastIndex) => idx' = idx + 1
        /\ lastEvent' \in { "follow", "input" } => idx' = idx ]_vars

\* The follow checkbox was toggled on a route that had advanced.
C7_Witness ==
  /\ lastEvent = "follow"
  /\ info # NULL
  /\ idx > 0
  /\ ~follow

\* C8: once as many ticks as the path has waypoints have fired for the
\* active route, idx is its last index; with the interval firing, an active
\* route reaches its last index unless it is cleared or superseded first
\* (either sets info to null), and idx stays there while the route stays.
C8_ReachesLast ==
  /\ []((info # NULL /\ ticks >= Len(Val(info).path)) => idx = LastIndex)
  /\ (info # NULL) ~> (info = NULL \/ idx = LastIndex)
  /\ [][ (info # NULL /\ info' = info /\ idx = LastIndex) => idx' = idx ]_vars

\* As many ticks as the path has waypoints have fired for the active route.
C8_Witness ==
  /\ info # NULL
  /\ lastEvent = "tick"
  /\ ticks = Len(Val(info).path)
  /\ idx = LastIndex

\* The sum of the first n segments of path, straight from the table.
RECURSIVE SegmentSum(_, _)
SegmentSum(path, n) ==
  IF n = 0 THEN 0
  ELSE SegmentSum(path, n - 1) + HaversineTable[<< path[n], path[n + 1] >>]

Snapshot == Val(distances(info, idx))

\* C9: for the active route at the current idx, total is the length of the
\* whole path and covered the length of its first idx segments, with
\* 0 <= covered <= total, remaining = max(0, total - covered) and
\* covered + remaining = total.
C9_SnapshotAddsUp ==
  info # NULL =>
    /\ Snapshot.total = SegmentSum(Val(info).path, LastIndex)
    /\ Snapshot.covered = SegmentSum(Val(info).path, idx)
    /\ Snapshot.total >= 0
    /\ 0 <= Snapshot.covered
    /\ Snapshot.covered <= Snapshot.total
    /\ Snapshot.remaining =
         (IF Snapshot.total - Snapshot.covered > 0
            THEN Snapshot.total - Snapshot.covered ELSE 0)
    /\ Snapshot.covered + Snapshot.remaining = Snapshot.total

\* A route part of the way along: something covered, something remaining.
C9_Witness ==
  /\ info # NULL
  /\ idx > 0
  /\ idx < LastIndex
  /\ Snapshot.covered > 0
  /\ Snapshot.remaining > 0

\* C10: BLR555 resolves to 5 waypoints; right after a route resolved idx is
\* 0; at idx 0 covered is 0 and remaining is total; the first tick makes idx
\* 1 and remaining strictly smaller; at the last index remaining is 0.
C10_FreshRouteScenario ==
  /\ []((info # NULL /\ Val(info).trackingId = BLR555) =>
          Len(Val(info).path) = 5)
  /\ [](lastEvent = "resolve" => (info # NULL /\ idx = 0))
  /\ []((info # NULL /\ idx = 0) =>
          (Snapshot.covered = 0 /\ Snapshot.remaining = Snapshot.total))
  /\ []((info # NULL /\ idx = LastIndex) => Snapshot.remaining = 0)
  /\ [][ (lastEvent' = "tick" /\ idx = 0) =>
            /\ idx' = 1
            /\ Val(distances(info', idx')).remaining < Snapshot.remaining ]_vars

\* BLR555 after its first tick.
C10_Witness ==
  /\ info # NULL
  /\ Val(info).trackingId = BLR555
  /\ lastEvent = "tick"
  /\ ticks = 1
  /\ idx = 1
  /\ Snapshot.remaining = 107657509

\* The registry entry each text of the id input stands for, written out.
ExpectedKey ==
  ( << "c", "h", "n", "1", "2", "3" >> :> Some(CHN123) ) @@
  ( << " ", "c", "h", "n", "1", "2", "3", " " >> :> Some(CHN123) ) @@
  ( << "C", "H", "N", "1", "2", "3" >> :> Some(CHN123) ) @@
  ( << "B", "L", "R", "5", "5", "5" >> :> Some(BLR555) ) @@
  ( << "m", "u", "m", "7", "7", "7" >> :> Some(MUM777) ) @@
  ( << "Z", "Z", "Z", "0", "0", "0" >> :> NULL ) @@
  ( << " " >> :> NULL )

\* The fields of a route but its time stamp.
RouteFields(r) ==
  << r.trackingId, r.status, r.carrier, r.origin, r.destination, r.path >>

\* C11: the lookup of a submitted text resolves to the registry entry of the
\* id the text spells once trimmed and upper-cased, whatever its letter case
\* and surrounding white space ("chn123", "CHN123" and " chn123 " all give
\* the CHN123 entry), and fails with the not-found error when there is none
\* ("ZZZ000").
C11_CaseAndSpaceInsensitive ==
  lastEvent \in { "resolve", "reject" } =>
    IF ExpectedKey[submitted] = NULL
      THEN /\ lastEvent = "reject"
           /\ error = "Tracking ID not found"
           /\ info = NULL
      ELSE /\ lastEvent = "resolve"
           /\ info # NULL
           /\ RouteFields(Val(info)) = RouteFields(ROUTES[Val(ExpectedKey[submitted])])

\* " chn123 " was submitted and resolved to the CHN123 entry.
C11_Witness ==
  /\ lastEvent = "resolve"
  /\ submitted = << " ", "c", "h", "n", "1", "2", "3", " " >>
  /\ info # NULL
  /\ Val(info).trackingId = CHN123
  /\ Val(info).destination = "Adyar, Chennai"

\* C12: in the state right after Clear no interval is live, the three layer
\* refs are null, no route is active, idx is 0, the error is empty and
\* follow is true.
C12_ClearIsTotal ==
  lastEvent = "clear" =>
    /\ timers = {}
    /\ fullLineRef = NULL
    /\ travelledRef = NULL
    /\ markerRef = NULL
    /\ info = NULL
    /\ idx = 0
    /\ error = ""
    /\ follow

\* Clear was pressed on a drawn route whose interval had advanced it.
C12_Witness ==
  /\ lastEvent = "clear"
  /\ mapRef
  /\ prevIdx > 0
  /\ timerRef # 0
  /\ timers = {}

\* The characters of the message an Error carries.
MessageChars(m) ==
  IF m = "Tracking ID not found"
    THEN << "T", "r", "a", "c", "k", "i", "n", "g", " ", "I", "D", " ",
            "n", "o", "t", " ", "f", "o", "u", "n", "d" >>
    ELSE << >>

\* s occurs in t as a run of consecutive characters.
Contains(t, s) ==
  \E i \in 0..(Len(t) - Len(s)) : SubSeq(t, i + 1, i + Len(s)) = s

HalfMinutes == Val(formatArg).milli \div 500
\* A number of half minutes rounded to whole minutes, halves up.
RoundHalves(k) == (k + 1) \div 2

\* C14: formatETA returns the dash for an argument that is not finite or is
\* negative; round(minutes) and " min" for 0 <= minutes < 60; floor(minutes /
\* 60), "h ", round(minutes mod 60) and "m" from 60 on; so "0 min" for 0,
\* "30 min" for 30, "1h 30m" for 90, the dash for -5 and NaN.
C14_FormatETA ==
  (formatted # NULL /\ formatArg # NULL) =>
    /\ IF Val(formatArg).kind # "finite" \/ Val(formatArg).milli < 0
         THEN Val(formatted) = Placeholder
         ELSE IF HalfMinutes < 120
           THEN Val(formatted) =
                  Digits(RoundHalves(HalfMinutes)) \o << " ", "m", "i", "n" >>
           ELSE Val(formatted) =
                  Digits(HalfMinutes \div 120) \o << "h", " " >>
                    \o Digits(RoundHalves(HalfMinutes % 120)) \o << "m" >>
    /\ formatArg = Some(Finite(0)) => Val(formatted) = << "0", " ", "m", "i", "n" >>
    /\ formatArg = Some(Finite(30000)) =>
         Val(formatted) = << "3", "0", " ", "m", "i", "n" >>
    /\ formatArg = Some(Finite(90000)) =>
         Val(formatted) = << "1", "h", " ", "3", "0", "m" >>
    /\ formatArg \in { Some(Finite(0 - 5000)), Some(NaN) } =>
         Val(formatted) = Placeholder

\* formatETA(90) returned "1h 30m".
C14_Witness ==
  /\ formatArg = Some(Finite(90000))
  /\ formatted = Some(<< "1", "h", " ", "3", "0", "m" >>)

\* C15: a lookup that was started settles, and loading is then false; an
\* error on screen never comes with loading, so a typed id can be submitted;
\* and once a text that spells a registered id is submitted, that route
\* becomes active at idx 0 with the error empty and loading false.
C15_Recoverable ==
  /\ loading ~> ~loading
  /\ [](error # "" => (~loading /\ (trackingId # << >> => ENABLED handleSearch)))
  /\ [][ lastEvent' \in { "resolve", "reject" } => ~loading' ]_vars
  /\ (lastEvent = "submit" /\ ExpectedKey[submitted] # NULL)
       ~> ( /\ info # NULL
            /\ Val(info).trackingId = Val(ExpectedKey[submitted])
            /\ idx = 0
            /\ error = ""
            /\ ~loading )

\* A registered id, submitted while the not-found error was on screen, is
\* tracked at idx 0 with the error gone.
C15_Witness ==
  /\ lastEvent = "resolve"
  /\ prevError = "Tracking ID not found"
  /\ ~clearPressed
  /\ info # NULL
  /\ idx = 0
  /\ error = ""
  /\ ~loading

\* C16 as claimed: from a Clear until the next submit no route is active and
\* no interval is live.
C16_IdleAfterClear ==
  clearPressed => (info = NULL /\ timers = {})

\* C17 as claimed: while no route is active the three layer refs are null.
C17_NoLayersWithoutRoute ==
  info = NULL =>
    (fullLineRef = NULL /\ travelledRef = NULL /\ markerRef = NULL)

\* C18: at most one lookup is pending, loading is true exactly while one is,
\* and a submit happens only with loading false and a non-empty input.
C18_OneLookup ==
  /\ [](Len(fetches) <= 1)
  /\ [](loading <=> fetches # << >>)
  /\ [][ lastEvent' = "submit" =>
          (~loading /\ trackingId # << >> /\ fetches = << >>) ]_vars

\* Clear was pressed while a lookup was pending and an id typed again: the
\* lookup is still the only one and the Track button is disabled.
C18_Witness ==
  /\ clearPressed
  /\ loading
  /\ Len(fetches) = 1
  /\ trackingId # << >>
  /\ ~ENABLED handleSearch

\* C19: an error message and an active route are never there together.
C19_ErrorXorRoute ==
  ~(error # "" /\ info # NULL)

\* A route is active, resolved by a search that was submitted while the
\* not-found error was on screen; the error is gone.
C19_Witness ==
  /\ info # NULL
  /\ error = ""
  /\ prevError # ""
  /\ ~clearPressed
  /\ idx > 0

\* The hours the bounded arguments can reach.
MaxHours == (MaxHalfMinutes \div 120) + 1

\* C20 as claimed: for a finite, non-negative argument the minutes figure
\* formatETA renders is one of 0..59.
C20_MinutesBelow60 ==
  (formatted # NULL /\ formatArg # NULL /\ Val(formatArg).kind = "finite"
     /\ Val(formatArg).milli >= 0) =>
    \/ \E m \in 0..59 :
         Val(formatted) = Digits(m) \o << " ", "m", "i", "n" >>
    \/ \E h \in 1..MaxHours, m \in 0..59 :
         Val(formatted) = Digits(h) \o << "h", " " >> \o Digits(m) \o << "m" >>

====
